---------------------------- MODULE Spec2Model ----------------------------
(***************************************************************************)
(* Model of src/src/components/TreasurySimulator.tsx: the component state  *)
(* (accounts, transactions, transferForm, filters, error, success) and its *)
(* handlers handleTransfer, handleFormChange and handleFilterChange.       *)
(*                                                                         *)
(* The program's `number` values are IEEE-754 binary64.  They are modelled *)
(* bit-exactly: a finite number is sign * m * 2^e with m an odd natural of *)
(* at most 53 bits held as a sequence of base-2^15 limbs (TLC's integers   *)
(* are 32 bits wide), and every arithmetic operator rounds to nearest,     *)
(* ties to even, as the hardware does.                                     *)
(***************************************************************************)
EXTENDS Integers, Sequences, FiniteSets, TLC

(***************************************************************************)
(* Natural numbers of arbitrary size: little-endian sequences of limbs in  *)
(* 0..BASE-1 without a leading (last) zero limb; <<>> is zero.             *)
(***************************************************************************)
LimbBits == 15
BASE == 32768

Max(a, b) == IF a >= b THEN a ELSE b
Min(a, b) == IF a <= b THEN a ELSE b

\* TRUE; evaluating it evaluates v.  TLC passes operator arguments unevaluated,
\* so an accumulator is evaluated at each step of a recursion by naming it in
\* the step's test, which keeps the depth of evaluation bounded.
Strict(v) == v = v

Limb(a, i) == IF i >= 1 /\ i <= Len(a) THEN a[i] ELSE 0

\* the highest index in lo..hi of a non-zero limb of a, 0 when there is none
RECURSIVE TopLimb(_, _, _)
TopLimb(a, lo, hi) ==
    IF lo > hi THEN 0
    ELSE IF lo = hi THEN (IF a[lo] # 0 THEN lo ELSE 0)
    ELSE LET Pick(top, mid) == IF top # 0 THEN top ELSE TopLimb(a, lo, mid)
             Upper(mid) == Pick(TopLimb(a, mid + 1, hi), mid)
         IN  Upper((lo + hi) \div 2)

Trim(a) == IF a = <<>> THEN a
           ELSE IF a[Len(a)] # 0 THEN a
           ELSE SubSeq(a, 1, TopLimb(a, 1, Len(a) - 1))

NatN(n) == Trim(<<n % BASE, (n \div BASE) % BASE, n \div (BASE * BASE)>>)

\* The limb-by-limb operations below walk a range of limbs lo..hi by halving
\* it, carrying st = <<limbs so far, carry>> from the low half into the high
\* half: the result is that of the loop from lo to hi, and the depth of
\* evaluation stays logarithmic in the number of limbs.
RECURSIVE AddC(_, _, _, _, _)
AddC(a, b, lo, hi, st) ==
    IF Strict(st) /\ lo > hi THEN st
    ELSE IF lo = hi
    THEN LET With(t) == <<Append(st[1], t % BASE), t \div BASE>>
         IN  With(Limb(a, lo) + Limb(b, lo) + st[2])
    ELSE LET Upper(mid) == AddC(a, b, mid + 1, hi, AddC(a, b, lo, mid, st))
         IN  Upper((lo + hi) \div 2)

AddN(a, b) ==
    LET Done(st) == IF st[2] = 0 THEN st[1] ELSE Append(st[1], st[2])
    IN  Done(AddC(a, b, 1, Max(Len(a), Len(b)), <<<<>>, 0>>))

RECURSIVE SubC(_, _, _, _, _)
SubC(a, b, lo, hi, st) ==
    IF Strict(st) /\ lo > hi THEN st
    ELSE IF lo = hi
    THEN LET With(t) == IF t < 0 THEN <<Append(st[1], t + BASE), 1>>
                        ELSE <<Append(st[1], t), 0>>
         IN  With(a[lo] - Limb(b, lo) - st[2])
    ELSE LET Upper(mid) == SubC(a, b, mid + 1, hi, SubC(a, b, lo, mid, st))
         IN  Upper((lo + hi) \div 2)

\* a - b for a >= b
SubN(a, b) == Trim(SubC(a, b, 1, Len(a), <<<<>>, 0>>)[1])

\* -1, 0, 1 as the limbs lo..hi of a, read from the top, are below, equal to
\* or above those of b
RECURSIVE CmpAt(_, _, _, _)
CmpAt(a, b, lo, hi) ==
    IF lo > hi THEN 0
    ELSE IF lo = hi
    THEN (IF a[lo] < b[lo] THEN -1 ELSE IF a[lo] > b[lo] THEN 1 ELSE 0)
    ELSE LET Pick(c, mid) == IF c # 0 THEN c ELSE CmpAt(a, b, lo, mid)
             Upper(mid) == Pick(CmpAt(a, b, mid + 1, hi), mid)
         IN  Upper((lo + hi) \div 2)

\* -1, 0, 1 as a < b, a = b, a > b
CmpN(a, b) ==
    IF Len(a) < Len(b) THEN -1
    ELSE IF Len(a) > Len(b) THEN 1
    ELSE CmpAt(a, b, 1, Len(a))

RECURSIVE MulSmallC(_, _, _, _, _)
MulSmallC(a, k, lo, hi, st) ==
    IF Strict(st) /\ lo > hi THEN st
    ELSE IF lo = hi
    THEN LET With(t) == <<Append(st[1], t % BASE), t \div BASE>>
         IN  With(a[lo] * k + st[2])
    ELSE LET Upper(mid) == MulSmallC(a, k, mid + 1, hi, MulSmallC(a, k, lo, mid, st))
         IN  Upper((lo + hi) \div 2)

\* a * k for 0 <= k < BASE
MulSmall(a, k) ==
    LET Done(st) == IF st[2] = 0 THEN st[1] ELSE Append(st[1], st[2])
    IN  IF k = 0 THEN <<>> ELSE Done(MulSmallC(a, k, 1, Len(a), <<<<>>, 0>>))

\* a * (limbs lo..hi of b) * BASE^(lo-1) added to acc, from the top limb down
RECURSIVE MulAcc(_, _, _, _, _)
MulAcc(a, b, lo, hi, acc) ==
    IF Strict(acc) /\ lo > hi THEN acc
    ELSE IF lo = hi THEN AddN(MulSmall(a, b[lo]), <<0>> \o acc)
    ELSE LET Lower(mid) == MulAcc(a, b, lo, mid, MulAcc(a, b, mid + 1, hi, acc))
         IN  Lower((lo + hi) \div 2)

MulN(a, b) == Trim(MulAcc(a, b, 1, Len(b), <<>>))

\* short division over the limbs hi down to lo of a; st is <<quotient limbs,
\* remainder>> of the limbs above hi
RECURSIVE DivSmallR(_, _, _, _, _)
DivSmallR(a, k, hi, lo, st) ==
    IF Strict(st) /\ hi < lo THEN st
    ELSE IF hi = lo
    THEN LET With(t) == <<<<t \div k>> \o st[1], t % k>>
         IN  With(st[2] * BASE + a[hi])
    ELSE LET Lower(mid) == DivSmallR(a, k, mid, lo, DivSmallR(a, k, hi, mid + 1, st))
         IN  Lower((hi + lo) \div 2)

\* floor(a / k) for 1 <= k <= BASE
DivSmall(a, k) == Trim(DivSmallR(a, k, Len(a), 1, <<<<>>, 0>>)[1])

Zeros(n) == [i \in 1..n |-> 0]

\* a * 2^n
ShlN(a, n) ==
    IF a = <<>> THEN a
    ELSE Zeros(n \div LimbBits) \o MulSmall(a, 2 ^ (n % LimbBits))

\* floor(a / 2^n)
ShrN(a, n) ==
    IF n \div LimbBits >= Len(a) THEN <<>>
    ELSE DivSmall(SubSeq(a, n \div LimbBits + 1, Len(a)), 2 ^ (n % LimbBits))

\* a mod 2^n
LowBits(a, n) ==
    Trim(SubSeq(a, 1, Min(Len(a), n \div LimbBits))
         \o <<Limb(a, n \div LimbBits + 1) % (2 ^ (n % LimbBits))>>)

BitLenSmall(x) == CHOOSE n \in 1..LimbBits : 2 ^ (n - 1) <= x /\ x < 2 ^ n

BitLen(a) == IF a = <<>> THEN 0
             ELSE LimbBits * (Len(a) - 1) + BitLenSmall(a[Len(a)])

Bit(a, i) == (Limb(a, (i - 1) \div LimbBits + 1) \div (2 ^ ((i - 1) % LimbBits))) % 2

TrailingZerosSmall(x) == CHOOSE n \in 0..(LimbBits - 1) :
                             x % (2 ^ n) = 0 /\ (x \div (2 ^ n)) % 2 = 1

\* number of trailing zero bits of a # 0
TrailingZeros(a) ==
    LET j == CHOOSE i \in 1..Len(a) : a[i] # 0 /\ \A h \in 1..(i - 1) : a[h] = 0
    IN  LimbBits * (j - 1) + TrailingZerosSmall(a[j])

\* one step of long division in base BASE: <<q, r2>> with
\* r * BASE + x = q * d + r2 and r2 < d, for r < d and a divisor d whose top
\* limb is at least BASE / 2 (the estimate from the top limbs is then at most
\* 2 above the quotient limb)
DivStep(d, r, x) ==
    LET Estimate(r1) ==
            Min((Limb(r1, Len(d) + 1) * BASE + Limb(r1, Len(d))) \div d[Len(d)],
                BASE - 1)
        Digit(r1, qhat) ==
            CHOOSE c \in Max(0, qhat - 2)..qhat :
                /\ CmpN(MulSmall(d, c), r1) <= 0
                /\ c = qhat \/ CmpN(MulSmall(d, c + 1), r1) > 0
        Step(r1, q) == <<q, SubN(r1, MulSmall(d, q))>>
        From(r1) == Step(r1, Digit(r1, Estimate(r1)))
    IN  From(Trim(<<x>> \o r))

\* long division over the limbs hi down to lo of n; st is <<quotient,
\* remainder>> of the limbs above hi.  The range is halved rather than walked
\* limb by limb, which keeps the depth of evaluation logarithmic.
RECURSIVE DivLimbs(_, _, _, _, _)
DivLimbs(n, d, hi, lo, st) ==
    IF Strict(st) /\ hi < lo THEN st
    ELSE IF hi = lo
    THEN LET After(step) == <<<<step[1]>> \o st[1], step[2]>>
         IN  After(DivStep(d, st[2], n[hi]))
    ELSE LET Lower(mid) == DivLimbs(n, d, mid, lo, DivLimbs(n, d, hi, mid + 1, st))
         IN  Lower((hi + lo) \div 2)

\* <<floor(n / d), n mod d>> for d # 0
DivModN(n, d) ==
    LET Result(st, sh) == <<Trim(st[1]), ShrN(st[2], sh)>>
        Divide(n1, d1, sh) == Result(DivLimbs(n1, d1, Len(n1), 1, <<<<>>, <<>>>>), sh)
        Normalised(sh) == Divide(ShlN(n, sh), ShlN(d, sh), sh)
    IN  Normalised(LimbBits - BitLenSmall(d[Len(d)]))

RECURSIVE Pow10N(_)
Pow10N(k) ==
    LET Square(h) == MulN(h, h)
    IN  IF k = 0 THEN <<1>>
        ELSE IF k % 2 = 0 THEN Square(Pow10N(k \div 2))
        ELSE MulSmall(Pow10N(k - 1), 10)

(***************************************************************************)
(* IEEE-754 binary64 values.  k is "fin", "inf", "nan" or "null" (the null *)
(* that calculateFXConversion returns); a finite value is                  *)
(* (-1)^s * m * 2^e with m odd (m = <<>>, e = 0, s = 0 for zero, the sign  *)
(* of zero is not kept: the program never divides by zero nor prints a     *)
(* zero's sign).  The representation is canonical, so = on records is ===  *)
(* on every value but NaN.                                                 *)
(***************************************************************************)
Precision == 53
MinExp == -1074
MaxBits == 1024

Zero == [k |-> "fin", s |-> 0, m |-> <<>>, e |-> 0]
NaN == [k |-> "nan", s |-> 0, m |-> <<>>, e |-> 0]
Null == [k |-> "null", s |-> 0, m |-> <<>>, e |-> 0]
Inf(s) == [k |-> "inf", s |-> s, m |-> <<>>, e |-> 0]

Canon(s, m, e) ==
    LET Odd(tz) == [k |-> "fin", s |-> s, m |-> ShrN(m, tz), e |-> e + tz]
    IN  Odd(TrailingZeros(m))

\* (-1)^s * (m + f) * 2^e rounded to nearest, ties to even, where 0 < f < 1
\* if sticky = 1 and f = 0 otherwise (sticky = 1 only with BitLen(m) > 53)
RoundF(s, m, e, sticky) ==
    LET Result(q2, sh) ==
            IF q2 = <<>> THEN Zero
            ELSE IF BitLen(q2) + e + sh > MaxBits THEN Inf(s)
            ELSE Canon(s, q2, e + sh)
        Up(q, c) == c > 0 \/ (c = 0 /\ (sticky = 1 \/ Bit(q, 1) = 1))
        Nearest(q, c, sh) == Result(IF Up(q, c) THEN AddN(q, <<1>>) ELSE q, sh)
        Shifted(sh) ==
            IF sh <= 0
            THEN (IF BitLen(m) + e > MaxBits THEN Inf(s) ELSE Canon(s, m, e))
            ELSE Nearest(ShrN(m, sh), CmpN(LowBits(m, sh), ShlN(<<1>>, sh - 1)), sh)
    IN  IF m = <<>> THEN Zero
        ELSE Shifted(Max(BitLen(m) - Precision, MinExp - e))

\* (-1)^s * (n / d) * 2^e correctly rounded, n # 0, d # 0
QuoF(s, n, d, e) ==
    LET Rounded(qr, k) == RoundF(s, qr[1], e - k, IF qr[2] = <<>> THEN 0 ELSE 1)
        Scaled(k) == Rounded(DivModN(ShlN(n, k), d), k)
    IN  IF d = <<1>> THEN RoundF(s, n, e, 0)
        ELSE Scaled(Max(0, 64 + BitLen(d) - BitLen(n)))

IsZero(a) == a.k = "fin" /\ a.m = <<>>

FMul(a, b) ==
    IF a.k = "nan" \/ b.k = "nan" THEN NaN
    ELSE IF a.k = "inf" \/ b.k = "inf"
         THEN (IF IsZero(a) \/ IsZero(b) THEN NaN ELSE Inf((a.s + b.s) % 2))
    ELSE IF IsZero(a) \/ IsZero(b) THEN Zero
    ELSE RoundF((a.s + b.s) % 2, MulN(a.m, b.m), a.e + b.e, 0)

FDiv(a, b) ==
    IF a.k = "nan" \/ b.k = "nan" THEN NaN
    ELSE IF a.k = "inf" THEN (IF b.k = "inf" THEN NaN ELSE Inf((a.s + b.s) % 2))
    ELSE IF b.k = "inf" THEN Zero
    ELSE IF IsZero(b) THEN (IF IsZero(a) THEN NaN ELSE Inf(a.s))
    ELSE IF IsZero(a) THEN Zero
    ELSE QuoF((a.s + b.s) % 2, a.m, b.m, a.e - b.e)

FNeg(a) == IF a.k = "inf" \/ (a.k = "fin" /\ a.m # <<>>)
           THEN [a EXCEPT !.s = 1 - a.s] ELSE a

FAdd(a, b) ==
    IF a.k = "nan" \/ b.k = "nan" THEN NaN
    ELSE IF a.k = "inf"
         THEN (IF b.k = "inf" /\ b.s # a.s THEN NaN ELSE a)
    ELSE IF b.k = "inf" THEN b
    ELSE IF IsZero(a) THEN b
    ELSE IF IsZero(b) THEN a
    ELSE LET Signed(ma, mb, c, e) ==
                 IF a.s # b.s /\ c = 0 THEN Zero
                 ELSE RoundF(IF a.s = b.s \/ c > 0 THEN a.s ELSE b.s,
                             IF a.s = b.s THEN AddN(ma, mb)
                             ELSE IF c > 0 THEN SubN(ma, mb) ELSE SubN(mb, ma),
                             e, 0)
             Aligned(ma, mb, e) == Signed(ma, mb, CmpN(ma, mb), e)
             Scaled(e) == Aligned(ShlN(a.m, a.e - e), ShlN(b.m, b.e - e), e)
         IN  Scaled(Min(a.e, b.e))

FSub(a, b) == FAdd(a, FNeg(b))

\* a < b, a <= b, isNaN(a), !a on numbers (and on null)
FLt(a, b) == LET Negative(d) == d.k # "nan" /\ d.s = 1 IN Negative(FSub(a, b))
FLe(a, b) == a.k # "nan" /\ b.k # "nan" /\ ~FLt(b, a)
IsNaN(a) == a.k = "nan"
Falsy(a) == a.k = "null" \/ a.k = "nan" \/ IsZero(a)

\* the number literal n * 10^-k of the source text (n < 2^31)
Dec(n, k) == IF n = 0 THEN Zero ELSE QuoF(0, NatN(n), Pow10N(k), 0)
Num(n) == Dec(n, 0)

(***************************************************************************)
(* parseFloat on a string given as its sequence of characters: leading     *)
(* blanks, an optional sign, the longest prefix digits [. digits] with an  *)
(* exponent part e [sign] digits when one follows, NaN when there is no    *)
(* digit.  ("Infinity" is not in the strings the model feeds it.)          *)
(***************************************************************************)
DigitChars == <<"0", "1", "2", "3", "4", "5", "6", "7", "8", "9">>
IsDigit(c) == \E d \in 1..10 : DigitChars[d] = c
DigitVal(c) == (CHOOSE d \in 1..10 : DigitChars[d] = c) - 1

RECURSIVE SkipBlanks(_, _)
SkipBlanks(str, i) ==
    IF i <= Len(str) /\ str[i] = " " THEN SkipBlanks(str, i + 1) ELSE i

\* the first position at or after i that holds no digit
RECURSIVE DigitEnd(_, _)
DigitEnd(str, i) ==
    IF i <= Len(str) /\ IsDigit(str[i]) THEN DigitEnd(str, i + 1) ELSE i

\* the natural number written by the digits str[i..j-1], appended to acc
RECURSIVE DigitsN(_, _, _, _)
DigitsN(str, i, j, acc) ==
    IF Strict(acc) /\ i >= j THEN acc
    ELSE DigitsN(str, i + 1, j, AddN(MulSmall(acc, 10), NatN(DigitVal(str[i]))))

\* the integer written by the digits str[i..j-1], appended to acc
RECURSIVE ExponentVal(_, _, _, _)
ExponentVal(str, i, j, acc) ==
    IF i >= j THEN acc ELSE ExponentVal(str, i + 1, j, acc * 10 + DigitVal(str[i]))

parseFloat(str) ==
    LET Value(neg, n, scale) ==
            IF n = <<>> THEN Zero
            ELSE IF scale <= 0
            THEN QuoF(IF neg THEN 1 ELSE 0, n, Pow10N(0 - scale), 0)
            ELSE RoundF(IF neg THEN 1 ELSE 0, MulN(n, Pow10N(scale)), 0, 0)
        ExponentDigits(neg, n, nfrac, eneg, q) ==
            IF DigitEnd(str, q) = q THEN Value(neg, n, 0 - nfrac)
            ELSE Value(neg, n, (IF eneg THEN -1 ELSE 1)
                                   * ExponentVal(str, q, DigitEnd(str, q), 0) - nfrac)
        Exponent(neg, n, nfrac, p) ==
            IF p <= Len(str) /\ (str[p] = "e" \/ str[p] = "E")
            THEN ExponentDigits(neg, n, nfrac,
                                p + 1 <= Len(str) /\ str[p + 1] = "-",
                                IF p + 1 <= Len(str)
                                   /\ (str[p + 1] = "-" \/ str[p + 1] = "+")
                                THEN p + 2 ELSE p + 1)
            ELSE Value(neg, n, 0 - nfrac)
        Digits(neg, i0, i1, f0, f1) ==
            IF i1 = i0 /\ f1 = f0 THEN NaN
            ELSE Exponent(neg, DigitsN(str, f0, f1, DigitsN(str, i0, i1, <<>>)), f1 - f0,
                          IF i1 <= Len(str) /\ str[i1] = "." THEN f1 ELSE i1)
        Fraction(neg, i0, i1) ==
            Digits(neg, i0, i1, i1 + 1,
                   IF i1 <= Len(str) /\ str[i1] = "." THEN DigitEnd(str, i1 + 1)
                   ELSE i1 + 1)
        Integer(neg, i0) == Fraction(neg, i0, DigitEnd(str, i0))
        Signed(b) ==
            Integer(b <= Len(str) /\ str[b] = "-",
                    IF b <= Len(str) /\ (str[b] = "-" \/ str[b] = "+") THEN b + 1
                    ELSE b)
    IN  Signed(SkipBlanks(str, 1))


(***************************************************************************)
(* The component.                                                          *)
(***************************************************************************)
VARIABLES
    accounts,       \* useState<Account[]>: sequence of [id, name, currency, balance]
    transactions,   \* useState<Transaction[]>: the log, newest first
    transferForm,   \* useState<TransferForm>
    filters,        \* useState<Filters>
    error,          \* useState<string>
    success,        \* useState<string>
    clock,          \* the last value the system clock returned (milliseconds)
    events          \* number of handler calls so far (bounds the session)

vars == <<accounts, transactions, transferForm, filters, error, success, clock, events>>

\* bounds of the exploration
MaxEvents == 8
MaxClock == 1

Currencies == {"KES", "USD", "NGN"}

\* FX_RATES, keyed by <<from, to>> for the key `${from}-${to}`
FX_RATES ==
    (<<"KES", "USD">> :> Dec(67, 4)) @@ (<<"USD", "KES">> :> Dec(14925, 2)) @@
    (<<"KES", "NGN">> :> Dec(27, 2)) @@ (<<"NGN", "KES">> :> Dec(370, 2)) @@
    (<<"USD", "NGN">> :> Dec(158000, 2)) @@ (<<"NGN", "USD">> :> Dec(63, 5))

Account(id, name, currency, balance) ==
    [id |-> id, name |-> name, currency |-> currency, balance |-> Num(balance)]

initialAccounts == <<
    Account("mpesa_kes_1", "Mpesa_KES_1", "KES", 2500000),
    Account("mpesa_kes_2", "Mpesa_KES_2", "KES", 1800000),
    Account("bank_kes_1", "Bank_KES_1", "KES", 5200000),
    Account("bank_usd_1", "Bank_USD_1", "USD", 45000),
    Account("bank_usd_2", "Bank_USD_2", "USD", 78000),
    Account("bank_usd_3", "Bank_USD_3", "USD", 32000),
    Account("flutterwave_ngn_1", "Flutterwave_NGN_1", "NGN", 15000000),
    Account("flutterwave_ngn_2", "Flutterwave_NGN_2", "NGN", 8500000),
    Account("paystack_ngn_1", "Paystack_NGN_1", "NGN", 12000000),
    Account("wise_usd_1", "Wise_USD_1", "USD", 95000) >>

\* the amount field is held as its sequence of characters (parseFloat reads
\* it), the other fields as strings
initialForm == [fromAccount |-> "", toAccount |-> "", amount |-> <<>>,
              note |-> "", scheduledDate |-> ""]

initialFilters == [account |-> "", currency |-> "", dateFrom |-> "", dateTo |-> ""]

Init ==
    /\ accounts = initialAccounts
    /\ transactions = <<>>
    /\ transferForm = initialForm
    /\ filters = initialFilters
    /\ error = ""
    /\ success = ""
    /\ clock = 0
    /\ events = 0

\* calculateFXConversion; Null is its null, and the undefined that FX_RATES
\* yields for a key it does not hold
calculateFXConversion(amount, fromCurrency, toCurrency) ==
    LET rateKey == <<fromCurrency, toCurrency>>
        Product(rate) == IF Falsy(rate) THEN Null ELSE FMul(amount, rate)
    IN  IF fromCurrency = toCurrency THEN amount
        ELSE Product(IF rateKey \in DOMAIN FX_RATES THEN FX_RATES[rateKey] ELSE Null)

\* accounts.find(acc => acc.id === id): the index of the first match, 0 for
\* undefined
Find(accts, id) ==
    IF \E i \in 1..Len(accts) : accts[i].id = id
    THEN CHOOSE i \in 1..Len(accts) :
             accts[i].id = id /\ \A j \in 1..(i - 1) : accts[j].id # id
    ELSE 0

MsgMissingField == "Please fill in all required fields"
MsgSameAccount == "Source and destination accounts must be different"
MsgInvalidAmount == "Please enter a valid amount"
MsgUnknownAccount == "Invalid account selection"
MsgInsufficientBalance == "Insufficient balance in source account"
MsgUnsupportedPair == "Currency conversion not supported for this pair"

\* status.toLowerCase()
toLowerCase(status) == IF status = "Scheduled" THEN "scheduled" ELSE "completed"
MsgSuccess(status) ==
    IF toLowerCase(status) = "scheduled" THEN "Transfer scheduled successfully!"
    ELSE "Transfer completed successfully!"

\* variants of the accounts.map: one credits the requested amount, unconverted;
\* one keeps only the two accounts of the transfer (a filter for the map)
updatedAccountsCreditsAmount(accts, form, amount, convertedAmount) ==
    [i \in 1..Len(accts) |->
        IF accts[i].id = form.fromAccount
        THEN [accts[i] EXCEPT !.balance = FSub(accts[i].balance, amount)]
        ELSE IF accts[i].id = form.toAccount
        THEN [accts[i] EXCEPT !.balance = FAdd(accts[i].balance, amount)]
        ELSE accts[i]]
updatedAccountsKeepsTouched(accts, form, amount, convertedAmount) ==
    SelectSeq([i \in 1..Len(accts) |->
                  IF accts[i].id = form.fromAccount
                  THEN [accts[i] EXCEPT !.balance = FSub(accts[i].balance, amount)]
                  ELSE IF accts[i].id = form.toAccount
                  THEN [accts[i] EXCEPT
                            !.balance = FAdd(accts[i].balance, convertedAmount)]
                  ELSE accts[i]],
              LAMBDA a : a.id \in {form.fromAccount, form.toAccount})

\* a variant of the map that leaves the balances alone when the transfer
\* carries a scheduled date
updatedAccountsDefersScheduled(accts, form, amount, convertedAmount) ==
    [i \in 1..Len(accts) |->
        IF form.scheduledDate # "" THEN accts[i]
        ELSE IF accts[i].id = form.fromAccount
        THEN [accts[i] EXCEPT !.balance = FSub(accts[i].balance, amount)]
        ELSE IF accts[i].id = form.toAccount
        THEN [accts[i] EXCEPT !.balance = FAdd(accts[i].balance, convertedAmount)]
        ELSE accts[i]]

\* a variant of the map that starts from the accounts the component was
\* constructed with, not from the accounts left by the previous submission
updatedAccountsOfStale(accts, form, amount, convertedAmount) ==
    [i \in 1..Len(initialAccounts) |->
        IF initialAccounts[i].id = form.fromAccount
        THEN [initialAccounts[i] EXCEPT
                  !.balance = FSub(initialAccounts[i].balance, amount)]
        ELSE IF initialAccounts[i].id = form.toAccount
        THEN [initialAccounts[i] EXCEPT
                  !.balance = FAdd(initialAccounts[i].balance, convertedAmount)]
        ELSE initialAccounts[i]]

\* the accounts.map of handleTransfer
updatedAccounts(accts, form, amount, convertedAmount) ==
    [i \in 1..Len(accts) |->
        IF accts[i].id = form.fromAccount
        THEN [accts[i] EXCEPT !.balance = FSub(accts[i].balance, amount)]
        ELSE IF accts[i].id = form.toAccount
        THEN [accts[i] EXCEPT !.balance = FAdd(accts[i].balance, convertedAmount)]
        ELSE accts[i]]

\* a variant of the Transaction object whose status ignores the scheduled date
newTransactionAlwaysCompleted(form, from, to, amount, convertedAmount, fxRate, t1, t2) ==
    [id |-> t1,
     timestamp |-> t2,
     fromAccount |-> from.name,
     toAccount |-> to.name,
     fromCurrency |-> from.currency,
     toCurrency |-> to.currency,
     amount |-> amount,
     convertedAmount |-> convertedAmount,
     fxRate |-> fxRate,
     note |-> form.note,
     scheduledDate |-> IF form.scheduledDate # "" THEN <<form.scheduledDate>> ELSE <<>>,
     status |-> "Completed"]

\* the Transaction object of handleTransfer; id is the number whose decimal
\* string Date.now().toString() is, timestamp the instant toISOString()
\* prints, scheduledDate is <<>> for null and <<date>> otherwise
newTransaction(form, from, to, amount, convertedAmount, fxRate, t1, t2) ==
    [id |-> t1,
     timestamp |-> t2,
     fromAccount |-> from.name,
     toAccount |-> to.name,
     fromCurrency |-> from.currency,
     toCurrency |-> to.currency,
     amount |-> amount,
     convertedAmount |-> convertedAmount,
     fxRate |-> fxRate,
     note |-> form.note,
     scheduledDate |-> IF form.scheduledDate # "" THEN <<form.scheduledDate>> ELSE <<>>,
     status |-> IF form.scheduledDate # "" THEN "Scheduled" ELSE "Completed"]

\* a variant that puts the new entry last
append(tx, log) == log \o <<tx>>

\* setTransactions([newTransaction, ...transactions])
prepend(tx, log) == <<tx>> \o log

\* a variant of the reset that forgets the two optional fields
resetFormKeepsOptional ==
    [transferForm EXCEPT !.fromAccount = "", !.toAccount = "", !.amount = <<>>]

\* the argument of the setTransferForm that ends handleTransfer
resetForm == [fromAccount |-> "", toAccount |-> "", amount |-> <<>>,
              note |-> "", scheduledDate |-> ""]

\* variants of the tests: one that looks at the amount only, one that never
\* fires, one with the comparison turned round
missingFieldAmountOnly(form) == form.amount = <<>>
sameAccountNever(form) == FALSE
insufficientBalanceInverted(from, amount) == FLt(amount, from.balance)
insufficientBalanceOrEqual(from, amount) == FLe(from.balance, amount)

\* the tests of handleTransfer, in the order the code makes them
missingField(form) ==
    form.fromAccount = "" \/ form.toAccount = "" \/ form.amount = <<>>
sameAccount(form) == form.fromAccount = form.toAccount
invalidAmount(amount) == IsNaN(amount) \/ FLe(amount, Zero)
unknownAccount(fromAccount, toAccount) == fromAccount = 0 \/ toAccount = 0
insufficientBalance(from, amount) == FLt(from.balance, amount)

\* variants of the conversion: one leaves the rate of a same-currency transfer
\* at zero, one divides the wrong way round
conversionZeroRate(from, to, amount) ==
    LET WithRate(converted) ==
            IF Falsy(converted) THEN <<>> ELSE <<converted, FDiv(converted, amount)>>
    IN  IF from.currency # to.currency
        THEN WithRate(calculateFXConversion(amount, from.currency, to.currency))
        ELSE <<amount, Zero>>
conversionInvertedRate(from, to, amount) ==
    LET WithRate(converted) ==
            IF Falsy(converted) THEN <<>> ELSE <<converted, FDiv(amount, converted)>>
    IN  IF from.currency # to.currency
        THEN WithRate(calculateFXConversion(amount, from.currency, to.currency))
        ELSE <<amount, Num(1)>>

\* lines 148-158: <<convertedAmount, fxRate>>, or <<>> when the conversion is
\* refused
conversion(from, to, amount) ==
    LET WithRate(converted) ==
            IF Falsy(converted) THEN <<>> ELSE <<converted, FDiv(converted, amount)>>
    IN  IF from.currency # to.currency
        THEN WithRate(calculateFXConversion(amount, from.currency, to.currency))
        ELSE <<amount, Num(1)>>

\* a variant of the early return that also clears the form
RejectAndReset(msg) ==
    /\ error' = msg
    /\ success' = ""
    /\ transferForm' = resetForm
    /\ UNCHANGED <<accounts, transactions, filters, clock>>

\* an early return of handleTransfer after setError(msg)
Reject(msg) ==
    /\ error' = msg
    /\ success' = ""
    /\ UNCHANGED <<accounts, transactions, transferForm, filters, clock>>

\* the rest of handleTransfer once validation has passed, the clock being
\* read at t1 (Date.now()) and then at t2 (new Date())
Apply(from, to, amount, convertedAmount, fxRate, t1, t2) ==
    LET tx == newTransaction(transferForm, from, to, amount, convertedAmount,
                             fxRate, t1, t2)
    IN  /\ error' = ""
        /\ success' = MsgSuccess(tx.status)
        /\ transferForm' = resetForm
        /\ clock' = t2
        /\ transactions' = prepend(tx, transactions)
        /\ accounts' = updatedAccounts(accounts, transferForm, amount, convertedAmount)
        /\ UNCHANGED filters

\* one call of a handler, in a session of at most budget calls
Call(budget) == events < budget /\ events' = events + 1

\* the body of handleTransfer
Submit ==
    LET Converted(from, to, amount, cv) ==
            IF cv = <<>> THEN Reject(MsgUnsupportedPair)
            ELSE \E t1 \in clock..MaxClock : \E t2 \in t1..MaxClock :
                     Apply(from, to, amount, cv[1], cv[2], t1, t2)
        Found(from, to, amount) ==
            IF insufficientBalance(from, amount) THEN Reject(MsgInsufficientBalance)
            ELSE Converted(from, to, amount, conversion(from, to, amount))
        Parsed(amount, fromAccount, toAccount) ==
            IF invalidAmount(amount) THEN Reject(MsgInvalidAmount)
            ELSE IF unknownAccount(fromAccount, toAccount)
            THEN Reject(MsgUnknownAccount)
            ELSE Found(accounts[fromAccount], accounts[toAccount], amount)
    IN  IF missingField(transferForm) THEN Reject(MsgMissingField)
        ELSE IF sameAccount(transferForm) THEN Reject(MsgSameAccount)
        ELSE Parsed(parseFloat(transferForm.amount),
                    Find(accounts, transferForm.fromAccount),
                    Find(accounts, transferForm.toAccount))

handleTransfer == Call(MaxEvents) /\ Submit

\* a variant of the updater that starts from the initial object, not from prev
fieldAlone(prev, field, value) ==
    IF "amount" \in DOMAIN prev THEN [initialForm EXCEPT ![field] = value]
    ELSE [initialFilters EXCEPT ![field] = value]

\* prev => ({ ...prev, [field]: value })
withField(prev, field, value) == [prev EXCEPT ![field] = value]

\* the values the user gives the form fields
FormFields == {"fromAccount", "toAccount", "amount", "note", "scheduledDate"}
FormValues(field) ==
    CASE field = "fromAccount" -> {"", "mpesa_kes_1", "ghost"}
      [] field = "toAccount" -> {"", "mpesa_kes_1", "mpesa_kes_2", "bank_usd_1"}
      [] field = "amount" -> {<<>>, <<"a", "b", "c">>, <<"-", "5">>, <<"1", "3">>,
                              <<"1", "0", "0", "0", "0", "0">>,
                              <<"9", "9", "9", "9", "9", "9", "9">>}
      [] field = "note" -> {"", "rent"}
      [] field = "scheduledDate" -> {"", "2026-12-01"}

\* the body of handleFormChange, for the values the user may give
FormChange(values) ==
    /\ \E field \in FormFields : \E value \in values[field] :
           transferForm' = withField(transferForm, field, value)
    /\ UNCHANGED <<accounts, transactions, filters, error, success, clock>>

handleFormChange ==
    /\ Call(MaxEvents)
    /\ FormChange([field \in FormFields |-> FormValues(field)])

\* the values the user gives the filter fields
FilterFields == {"account", "currency", "dateFrom", "dateTo"}
FilterValues(field) ==
    CASE field = "account" -> {"", "Mpesa"}
      [] field = "currency" -> {"", "USD"}
      [] field = "dateFrom" -> {""}
      [] field = "dateTo" -> {""}

\* the body of handleFilterChange, for the values the user may give
FilterChange(values) ==
    /\ \E field \in FilterFields : \E value \in values[field] :
           filters' = withField(filters, field, value)
    /\ UNCHANGED <<accounts, transactions, transferForm, error, success, clock>>

handleFilterChange ==
    /\ Call(MaxEvents)
    /\ FilterChange([field \in FilterFields |-> FilterValues(field)])

Next == handleTransfer \/ handleFormChange \/ handleFilterChange

Spec == Init /\ [][Next]_vars

(***************************************************************************)
(* The history view: filteredTransactions, recomputed at every render from *)
(* the log and the filters.                                                *)
(***************************************************************************)
\* the characters of the strings that name accounts or filter them
Chars(str) ==
    CASE str = "" -> <<>>
      [] str = "Mpesa" -> <<"M", "p", "e", "s", "a">>
      [] str = "KES_2" -> <<"K", "E", "S", "_", "2">>
      [] str = "mpesa" -> <<"m", "p", "e", "s", "a">>
      [] str = "Mpesa_KES_1" -> <<"M", "p", "e", "s", "a", "_", "K", "E", "S", "_", "1">>
      [] str = "Mpesa_KES_2" -> <<"M", "p", "e", "s", "a", "_", "K", "E", "S", "_", "2">>
      [] str = "Bank_KES_1" -> <<"B", "a", "n", "k", "_", "K", "E", "S", "_", "1">>
      [] str = "Bank_USD_1" -> <<"B", "a", "n", "k", "_", "U", "S", "D", "_", "1">>
      [] str = "Bank_USD_2" -> <<"B", "a", "n", "k", "_", "U", "S", "D", "_", "2">>
      [] str = "Bank_USD_3" -> <<"B", "a", "n", "k", "_", "U", "S", "D", "_", "3">>
      [] str = "Flutterwave_NGN_1" -> <<"F", "l", "u", "t", "t", "e", "r", "w", "a", "v", "e", "_", "N", "G", "N", "_", "1">>
      [] str = "Flutterwave_NGN_2" -> <<"F", "l", "u", "t", "t", "e", "r", "w", "a", "v", "e", "_", "N", "G", "N", "_", "2">>
      [] str = "Paystack_NGN_1" -> <<"P", "a", "y", "s", "t", "a", "c", "k", "_", "N", "G", "N", "_", "1">>
      [] str = "Wise_USD_1" -> <<"W", "i", "s", "e", "_", "U", "S", "D", "_", "1">>

\* String.prototype.includes
includes(str, sub) ==
    \E i \in 0..(Len(str) - Len(sub)) : SubSeq(str, i + 1, i + Len(sub)) = sub

\* Instants are in milliseconds from 2026-12-01T00:00:00.000Z.  The session
\* begins one millisecond before it: the clock reading t is the instant t - 1,
\* which toISOString prints and new Date(tx.timestamp) reads back.
DayMs == 24 * 60 * 60 * 1000
Instant(t) == t - 1

\* new Date(date) for a date-only string: 00:00:00 UTC of that day
DateOnly(date) ==
    CASE date = "2026-11-30" -> 0 - DayMs
      [] date = "2026-12-01" -> 0

\* new Date(date + 'T23:59:59'), a date-time without offset: 23:59:59 of that
\* day in local time, where local time is zone minutes ahead of UTC
DateTime(date, zone) == DateOnly(date) + DayMs - 1000 - zone * 60 * 1000

\* the offsets of local time the page may run under: UTC, Africa/Nairobi
TimeZones == {0, 180}

\* a variant of the callback that asks for one populated field to match
matchesAny(tx, f, zone) ==
    \/ f.account = "" /\ f.currency = "" /\ f.dateFrom = "" /\ f.dateTo = ""
    \/ /\ f.account # ""
       /\ \/ includes(Chars(tx.fromAccount), Chars(f.account))
          \/ includes(Chars(tx.toAccount), Chars(f.account))
    \/ f.currency # "" /\ (tx.fromCurrency = f.currency \/ tx.toCurrency = f.currency)
    \/ f.dateFrom # "" /\ Instant(tx.timestamp) >= DateOnly(f.dateFrom)
    \/ f.dateTo # "" /\ Instant(tx.timestamp) <= DateTime(f.dateTo, zone)

\* the callback of transactions.filter, for the filters f
matches(tx, f, zone) ==
    /\ f.account # ""
           => \/ includes(Chars(tx.fromAccount), Chars(f.account))
              \/ includes(Chars(tx.toAccount), Chars(f.account))
    /\ f.currency # "" => tx.fromCurrency = f.currency \/ tx.toCurrency = f.currency
    /\ f.dateFrom # "" => Instant(tx.timestamp) >= DateOnly(f.dateFrom)
    /\ f.dateTo # "" => Instant(tx.timestamp) <= DateTime(f.dateTo, zone)

\* a variant of the view that shows the oldest entry first
RECURSIVE Reversed(_)
Reversed(seq) == IF seq = <<>> THEN <<>> ELSE Reversed(Tail(seq)) \o <<Head(seq)>>
filteredTransactionsOldestFirst(zone) ==
    Reversed(SelectSeq(transactions, LAMBDA tx : matches(tx, filters, zone)))

filteredTransactions(zone) ==
    SelectSeq(transactions, LAMBDA tx : matches(tx, filters, zone))

(***************************************************************************)
(* The currency totals shown above the ledger.                             *)
(***************************************************************************)
\* totals[currency] || 0: an absent entry is undefined, and undefined, NaN
\* and both zeros are falsy
OrZero(totals, currency) ==
    IF currency \in DOMAIN totals /\ ~Falsy(totals[currency])
    THEN totals[currency] ELSE Zero

\* a variant of the callback that forgets what it had added up
addToTotalsForgetful(totals, acc) == (acc.currency :> acc.balance) @@ totals

\* the callback of accounts.forEach
addToTotals(totals, acc) ==
    (acc.currency :> FAdd(OrZero(totals, acc.currency), acc.balance)) @@ totals

RECURSIVE forEach(_, _, _)
forEach(accts, n, totals) ==
    IF Strict(totals) /\ n > Len(accts) THEN totals
    ELSE forEach(accts, n + 1, addToTotals(totals, accts[n]))

getTotalByCurrency == forEach(accounts, 1, <<>>)

currencyTotals == getTotalByCurrency

(***************************************************************************)
(* A longer session over fewer values: two transfers and then the filters. *)
(***************************************************************************)
MaxLongEvents == 10

LongFormValues(field) ==
    CASE field = "fromAccount" -> {"mpesa_kes_1"}
      [] field = "toAccount" -> {"mpesa_kes_2", "bank_usd_1"}
      [] field = "amount" -> {<<"1", "3">>, <<"2", "5", "0", "0", "0", "0", "0">>}
      [] field = "note" -> {""}
      [] field = "scheduledDate" -> {""}

LongFilterValues(field) ==
    CASE field = "account" -> {"", "KES_2"}
      [] field = "currency" -> {"", "USD"}
      [] field = "dateFrom" -> {"", "2026-12-01"}
      [] field = "dateTo" -> {"", "2026-11-30"}

longTransfer == Call(MaxLongEvents) /\ Submit
longFormChange ==
    /\ Call(MaxLongEvents)
    /\ FormChange([field \in FormFields |-> LongFormValues(field)])
longFilterChange ==
    /\ Call(MaxLongEvents)
    /\ FilterChange([field \in FilterFields |-> LongFilterValues(field)])

NextLong == longTransfer \/ longFormChange \/ longFilterChange

SpecLong == Init /\ [][NextLong]_vars

(***************************************************************************)
(* A session that tells repeated submissions apart.  Here events is the    *)
(* position in the session: a call that fails adds 1, every other call     *)
(* moves on to the next multiple of MaxRepeats + 1, so that the remainder  *)
(* is the number of failed submissions made since anything else happened.  *)
(***************************************************************************)
MaxRepeats == 3
MaxRepeatEvents == 20

SinceFailure == events % (MaxRepeats + 1)
NextRound == (events \div (MaxRepeats + 1) + 1) * (MaxRepeats + 1)

repeatTransfer ==
    /\ events < MaxRepeatEvents
    /\ Submit
    /\ IF error' # "" THEN SinceFailure < MaxRepeats /\ events' = events + 1
       ELSE events' = NextRound

repeatFormChange ==
    /\ events < MaxRepeatEvents
    /\ FormChange([field \in FormFields |-> FormValues(field)])
    /\ events' = NextRound

repeatFilterChange ==
    /\ events < MaxRepeatEvents
    /\ FilterChange([field \in FilterFields |-> FilterValues(field)])
    /\ events' = NextRound

NextRepeat == repeatTransfer \/ repeatFormChange \/ repeatFilterChange

SpecRepeat == Init /\ [][NextRepeat]_vars

(***************************************************************************)
(* Vocabulary of the properties.                                           *)
(***************************************************************************)
\* the positions of the ledger whose account has this id
Named(id) == {i \in DOMAIN accounts : accounts[i].id = id}
Sources == Named(transferForm.fromAccount)
Destinations == Named(transferForm.toAccount)

\* the amount the form asks for
Requested == parseFloat(transferForm.amount)

\* a step that is a submission the handler accepted
Accepted == error' = "" /\ handleTransfer

\* the validation steps of the specification, each on its own
ViolatesMissingField ==
    transferForm.fromAccount = "" \/ transferForm.toAccount = ""
        \/ transferForm.amount = <<>>
ViolatesSameAccount == transferForm.fromAccount = transferForm.toAccount
ViolatesInvalidAmount == IsNaN(Requested) \/ ~FLt(Zero, Requested)
ViolatesUnknownAccount == Sources = {} \/ Destinations = {}
ViolatesInsufficientBalance ==
    \E i \in Sources : FLt(accounts[i].balance, Requested)
ViolatesUnsupportedPair ==
    \E i \in Sources : \E j \in Destinations :
        /\ accounts[i].currency # accounts[j].currency
        /\ <<accounts[i].currency, accounts[j].currency>> \notin DOMAIN FX_RATES

\* the first validation step, in the specification's order, that the form
\* fails; "none" when it passes them all
FirstViolation ==
    IF ViolatesMissingField THEN "MissingField"
    ELSE IF ViolatesSameAccount THEN "SameAccount"
    ELSE IF ViolatesInvalidAmount THEN "InvalidAmount"
    ELSE IF ViolatesUnknownAccount THEN "UnknownAccount"
    ELSE IF ViolatesInsufficientBalance THEN "InsufficientBalance"
    ELSE IF ViolatesUnsupportedPair THEN "UnsupportedCurrencyPair"
    ELSE "none"

MessageOf(kind) ==
    CASE kind = "MissingField" -> "Please fill in all required fields"
      [] kind = "SameAccount" -> "Source and destination accounts must be different"
      [] kind = "InvalidAmount" -> "Please enter a valid amount"
      [] kind = "UnknownAccount" -> "Invalid account selection"
      [] kind = "InsufficientBalance" -> "Insufficient balance in source account"
      [] kind = "UnsupportedCurrencyPair" ->
             "Currency conversion not supported for this pair"

ErrorKinds == {"MissingField", "SameAccount", "InvalidAmount", "UnknownAccount",
               "InsufficientBalance", "UnsupportedCurrencyPair"}

\* the rate of the specification for a transfer from position i to position j
Rate(i, j) ==
    IF accounts[i].currency = accounts[j].currency THEN Num(1)
    ELSE FX_RATES[<<accounts[i].currency, accounts[j].currency>>]

(***************************************************************************)
(* C1: in every reachable state every account balance is >= 0, and a       *)
(* submission whose amount exceeds the source balance is rejected with the *)
(* balances left as they were.                                             *)
(***************************************************************************)
C1_BalancesNeverNegative ==
    /\ [](\A i \in DOMAIN accounts : FLe(Zero, accounts[i].balance))
    /\ [][(ViolatesInsufficientBalance /\ handleTransfer)
              => (error' # "" /\ accounts' = accounts)]_vars

\* an overdraft was asked for and refused
C1_Witness ==
    /\ error = "Insufficient balance in source account"
    /\ ViolatesInsufficientBalance

(***************************************************************************)
(* C2: a submission that fails a validation step is rejected and leaves    *)
(* the balances, the log, the form and the filters as they were; only the  *)
(* messages change.                                                        *)
(***************************************************************************)
C2_FailedSubmissionChangesNothing ==
    [][(handleTransfer /\ FirstViolation # "none")
           => /\ error' # "" /\ success' = ""
              /\ accounts' = accounts
              /\ transactions' = transactions
              /\ transferForm' = transferForm
              /\ filters' = filters]_vars

\* a submission was rejected after an earlier one had changed the ledger
C2_Witness ==
    /\ error # ""
    /\ FirstViolation # "none"
    /\ Len(transactions) = 1
    /\ accounts # initialAccounts

(***************************************************************************)
(* C3: an accepted transfer of amount a from S to D debits S by a, credits *)
(* D by a * r (r = 1 for equal currencies, else the table rate of the      *)
(* ordered pair) in the same step and leaves every other account as it     *)
(* was; from the initial state 100,000 from Mpesa_KES_1 to Bank_USD_1      *)
(* gives 2,400,000 KES and 45,670 USD.                                     *)
(***************************************************************************)
C3_DebitAndCredit ==
    [][Accepted
           => /\ \E i \in Sources : \E j \in Destinations :
                    /\ i # j
                    /\ DOMAIN accounts' = DOMAIN accounts
                    /\ accounts'[i].balance = FSub(accounts[i].balance, Requested)
                    /\ accounts'[j].balance =
                           FAdd(accounts[j].balance, FMul(Requested, Rate(i, j)))
                    /\ \A h \in DOMAIN accounts \ {i, j} : accounts'[h] = accounts[h]
              /\ (/\ accounts = initialAccounts
                  /\ transferForm.fromAccount = "mpesa_kes_1"
                  /\ transferForm.toAccount = "bank_usd_1"
                  /\ transferForm.amount = <<"1", "0", "0", "0", "0", "0">>)
                    => /\ accounts'[1].balance = Num(2400000)
                       /\ accounts'[4].balance = Num(45670)]_vars

\* the transfer of the example has been made
C3_Witness ==
    /\ Len(transactions) = 1
    /\ transactions[1].fromAccount = "Mpesa_KES_1"
    /\ transactions[1].toAccount = "Bank_USD_1"
    /\ accounts[1].balance = Num(2400000)
    /\ accounts[4].balance = Num(45670)

(***************************************************************************)
(* C4: a rejected submission shows the message of the first validation     *)
(* step, in the order MissingField, SameAccount, InvalidAmount,            *)
(* UnknownAccount, InsufficientBalance, UnsupportedCurrencyPair, that the  *)
(* form fails, and the six kinds have six different messages.              *)
(***************************************************************************)
C4_FirstFailureDecides ==
    /\ [](Cardinality({MessageOf(kind) : kind \in ErrorKinds}) = 6)
    /\ [][(handleTransfer /\ FirstViolation # "none")
              => error' = MessageOf(FirstViolation)]_vars

\* same source and destination with a non-positive amount: SameAccount
C4_Witness ==
    /\ transferForm.fromAccount # ""
    /\ ViolatesSameAccount
    /\ transferForm.amount # <<>>
    /\ ViolatesInvalidAmount
    /\ error = "Source and destination accounts must be different"

(***************************************************************************)
(* C5: the log is append-only and newest first: an accepted submission     *)
(* makes the log one new entry followed by the old log, and no other step  *)
(* changes the log.                                                        *)
(***************************************************************************)
C5_LogIsPrependOnly ==
    [][IF Accepted
       THEN /\ Len(transactions') = Len(transactions) + 1
            /\ Tail(transactions') = transactions
       ELSE transactions' = transactions]_vars

\* a second, different entry has been put before the first
C5_Witness ==
    /\ Len(transactions) = 2
    /\ transactions[1] # transactions[2]

(***************************************************************************)
(* C6: an accepted transfer is recorded Scheduled exactly when the form's  *)
(* scheduled date is non-empty, else Completed; its debit and credit are   *)
(* made in the step of the submission; no other step changes a balance,    *)
(* and no step changes the status of an entry already in the log.          *)
(***************************************************************************)
C6_ScheduledIsAppliedAtOnce ==
    [][/\ Len(transactions') >= Len(transactions)
       /\ \A n \in 1..Len(transactions) :
              transactions'[Len(transactions') - Len(transactions) + n].status =
                  transactions[n].status
       /\ IF Accepted
          THEN /\ transactions'[1].status =
                      (IF transferForm.scheduledDate # "" THEN "Scheduled"
                       ELSE "Completed")
               /\ \E i \in Sources : \E j \in Destinations :
                     /\ accounts'[i].balance =
                            FSub(accounts[i].balance, transactions'[1].amount)
                     /\ accounts'[j].balance =
                            FAdd(accounts[j].balance, transactions'[1].convertedAmount)
          ELSE accounts' = accounts]_vars

\* a Scheduled entry whose debit is already in the ledger
C6_Witness ==
    /\ Len(transactions) = 1
    /\ transactions[1].status = "Scheduled"
    /\ transactions[1].scheduledDate = <<"2026-12-01">>
    /\ FLt(accounts[1].balance, Num(2500000))

(***************************************************************************)
(* C7: an accepted transfer between two accounts of one currency records   *)
(* fxRate 1 and convertedAmount = amount, and credits the destination with *)
(* exactly the amount it debits from the source.                           *)
(***************************************************************************)
C7_SameCurrencyIsIdentity ==
    [][(Accepted /\ \E i \in Sources : \E j \in Destinations :
                        accounts[i].currency = accounts[j].currency)
           => /\ transactions'[1].fxRate = Num(1)
              /\ transactions'[1].amount = Requested
              /\ transactions'[1].convertedAmount = transactions'[1].amount
              /\ \E i \in Sources : \E j \in Destinations :
                    /\ accounts'[i].balance = FSub(accounts[i].balance, Requested)
                    /\ accounts'[j].balance = FAdd(accounts[j].balance, Requested)]_vars

\* a transfer within one currency is in the log
C7_Witness ==
    /\ transactions # <<>>
    /\ transactions[1].fromCurrency = transactions[1].toCurrency
    /\ transactions[1].fromAccount # transactions[1].toAccount

(***************************************************************************)
(* C8: every entry of the log has convertedAmount = amount * fxRate, its   *)
(* fxRate is 1 exactly when its two currencies are the same, and for two   *)
(* different currencies its fxRate is the table rate of the ordered pair.  *)
(* As stated this fails: 13 from Mpesa_KES_1 to Bank_USD_1 records the     *)
(* quotient (13 * 0.0067) / 13 = 0.006699999999999999, not 0.0067.         *)
(***************************************************************************)
C8_FxRateIsTableRate ==
    \A n \in DOMAIN transactions :
        LET tx == transactions[n]
        IN  /\ tx.convertedAmount = FMul(tx.amount, tx.fxRate)
            /\ tx.fxRate = Num(1) <=> tx.fromCurrency = tx.toCurrency
            /\ tx.fromCurrency # tx.toCurrency
                   => tx.fxRate = FX_RATES[<<tx.fromCurrency, tx.toCurrency>>]

(***************************************************************************)
(* C8, amended: every entry of the log has convertedAmount = amount *      *)
(* fxRate, its fxRate is 1 exactly when its two currencies are the same,   *)
(* and for two different currencies its convertedAmount is amount * the    *)
(* table rate of the ordered pair and its fxRate is the quotient           *)
(* convertedAmount / amount.                                               *)
(***************************************************************************)
C8_FxRateIsQuotient ==
    \A n \in DOMAIN transactions :
        LET tx == transactions[n]
        IN  /\ tx.convertedAmount = FMul(tx.amount, tx.fxRate)
            /\ tx.fxRate = Num(1) <=> tx.fromCurrency = tx.toCurrency
            /\ tx.fromCurrency # tx.toCurrency
                   => /\ tx.convertedAmount =
                             FMul(tx.amount,
                                  FX_RATES[<<tx.fromCurrency, tx.toCurrency>>])
                      /\ tx.fxRate = FDiv(tx.convertedAmount, tx.amount)

\* an entry between two currencies whose fxRate is not the table rate
C8_Witness ==
    /\ transactions # <<>>
    /\ transactions[1].fromCurrency = "KES"
    /\ transactions[1].toCurrency = "USD"
    /\ transactions[1].amount = Num(13)
    /\ transactions[1].fxRate # FX_RATES[<<"KES", "USD">>]

(***************************************************************************)
(* C9: after an accepted submission the five form fields are empty; after  *)
(* a rejected submission every form field holds the value it held before.  *)
(***************************************************************************)
C9_FormResetOnSuccessOnly ==
    [][handleTransfer
           => IF error' = ""
              THEN /\ transferForm'.fromAccount = "" /\ transferForm'.toAccount = ""
                   /\ transferForm'.amount = <<>> /\ transferForm'.note = ""
                   /\ transferForm'.scheduledDate = ""
              ELSE \A field \in FormFields : transferForm'[field] = transferForm[field]]_vars

\* a form with all five fields filled was accepted and reset, and a later
\* form was rejected and kept
C9_Witness ==
    /\ transactions # <<>>
    /\ transactions[1].note = "rent"
    /\ transactions[1].scheduledDate # <<>>
    /\ error # ""
    /\ transferForm.note = "rent"

(***************************************************************************)
(* C10: in every reachable state the ledger is the ten seed accounts, in   *)
(* their order, with their ids, names and currencies; a step changes a     *)
(* balance only if it is an accepted submission.                           *)
(***************************************************************************)
C10_LedgerIsTheSeedAccounts ==
    /\ [](/\ Len(accounts) = 10
          /\ \A i \in 1..10 :
                /\ accounts[i].id = initialAccounts[i].id
                /\ accounts[i].name = initialAccounts[i].name
                /\ accounts[i].currency = initialAccounts[i].currency)
    /\ [][accounts' # accounts => Accepted]_vars

\* two balances have changed, and the ledger is still the ten accounts
C10_Witness ==
    /\ Len(accounts) = 10
    /\ Cardinality({i \in 1..10 : accounts[i].balance # initialAccounts[i].balance}) = 2

(***************************************************************************)
(* Vocabulary of the properties of the history view.  A date a user types  *)
(* is a day of the local calendar, the calendar the history shows the      *)
(* timestamps in: it starts at 00:00:00 and ends at 23:59:59 local time.   *)
(***************************************************************************)
StartOfDay(date, zone) == DateOnly(date) - zone * 60 * 1000
EndOfDay(date, zone) == StartOfDay(date, zone) + DayMs - 1000

\* tx satisfies every non-empty field of the filters f
Satisfies(tx, f, zone) ==
    /\ f.account # ""
           => \/ includes(Chars(tx.fromAccount), Chars(f.account))
              \/ includes(Chars(tx.toAccount), Chars(f.account))
    /\ f.currency # "" => f.currency \in {tx.fromCurrency, tx.toCurrency}
    /\ f.dateFrom # "" => Instant(tx.timestamp) >= StartOfDay(f.dateFrom, zone)
    /\ f.dateTo # "" => Instant(tx.timestamp) <= EndOfDay(f.dateTo, zone)

\* the entries of a sequence, as a set
Entries(seq) == {seq[n] : n \in DOMAIN seq}

\* sub is seq with some entries left out
RECURSIVE IsSubsequence(_, _)
IsSubsequence(sub, seq) ==
    IF sub = <<>> THEN TRUE
    ELSE IF seq = <<>> THEN FALSE
    ELSE IF Head(sub) = Head(seq) THEN IsSubsequence(Tail(sub), Tail(seq))
    ELSE IsSubsequence(sub, Tail(seq))

(***************************************************************************)
(* C11: under every local time zone a log entry is in the filtered history *)
(* exactly when it satisfies every non-empty filter field; with only the   *)
(* currency filter set to USD the history is the entries with a USD side,  *)
(* and with all filters empty it is the whole log.                         *)
(***************************************************************************)
C11_FilteredIffEveryFieldMatches ==
    \A zone \in TimeZones :
        /\ \A n \in DOMAIN transactions :
               transactions[n] \in Entries(filteredTransactions(zone))
                   <=> Satisfies(transactions[n], filters, zone)
        /\ filters = [account |-> "", currency |-> "USD", dateFrom |-> "", dateTo |-> ""]
               => filteredTransactions(zone) =
                      SelectSeq(transactions,
                                LAMBDA tx : "USD" \in {tx.fromCurrency, tx.toCurrency})
        /\ filters = initialFilters => filteredTransactions(zone) = transactions

(***************************************************************************)
(* C12: filtering is monotonic: a step that changes one empty filter field *)
(* to a non-empty value, the other fields and the log staying as they are, *)
(* leaves a filtered history whose entries were all in the previous one.   *)
(***************************************************************************)
C12_FilteringIsMonotonic ==
    [][\A zone \in TimeZones : \A field \in FilterFields :
           (/\ filters[field] = ""
            /\ filters'[field] # ""
            /\ \A other \in FilterFields \ {field} : filters'[other] = filters[other]
            /\ transactions' = transactions)
               => Entries(filteredTransactions(zone)')
                      \subseteq Entries(filteredTransactions(zone))]_vars

\* a second filter field has been set and has taken an entry out of a history
\* that the first one had left it in
C12_Witness ==
    /\ filters.currency = "USD"
    /\ filters.dateFrom = "2026-12-01"
    /\ \E n \in DOMAIN transactions :
           /\ "USD" \in {transactions[n].fromCurrency, transactions[n].toCurrency}
           /\ \A zone \in TimeZones :
                  transactions[n] \notin Entries(filteredTransactions(zone))

(***************************************************************************)
(* C18: for every filter setting and every local time zone the filtered    *)
(* history is a subsequence of the log: its entries are entries of the log *)
(* in the log's order, none shown more often than the log holds it.        *)
(***************************************************************************)
C18_FilteredIsSubsequenceOfLog ==
    \A zone \in TimeZones : IsSubsequence(filteredTransactions(zone), transactions)

\* the filter keeps the older of two entries and drops the newer
C18_Witness ==
    /\ Len(transactions) = 2
    /\ filters.account = "KES_2"
    /\ \A zone \in TimeZones : filteredTransactions(zone) = <<transactions[2]>>

\* the sum of the balances of a sequence of accounts, first to last
RECURSIVE SumFrom(_, _, _)
SumFrom(accts, n, sum) ==
    IF Strict(sum) /\ n > Len(accts) THEN sum
    ELSE SumFrom(accts, n + 1, FAdd(sum, accts[n].balance))

SumOfBalances(accts) == SumFrom(accts, 1, Zero)

AccountsIn(currency) == SelectSeq(accounts, LAMBDA acc : acc.currency = currency)

(***************************************************************************)
(* C13: in every reachable state the currency totals have an entry exactly *)
(* for the currencies that have an account, and the entry of a currency is *)
(* the sum of the balances of the accounts of that currency, taken over    *)
(* the whole ledger in ledger order, whatever the filters are.             *)
(***************************************************************************)
C13_TotalsAreSumsByCurrency ==
    /\ DOMAIN currencyTotals = {c \in Currencies : AccountsIn(c) # <<>>}
    /\ \A c \in DOMAIN currencyTotals :
           currencyTotals[c] = SumOfBalances(AccountsIn(c))

\* a transfer across currencies has moved two totals while a filter is set
C13_Witness ==
    /\ filters.currency = "USD"
    /\ currencyTotals["KES"] # Num(9500000)
    /\ currencyTotals["USD"] # Num(250000)
    /\ currencyTotals["NGN"] = Num(35500000)

(***************************************************************************)
(* C14: transaction identifiers are unique and grow with creation time: in *)
(* every reachable state an entry of the log (newest first) has an id      *)
(* strictly greater than the id of every entry created before it, so no    *)
(* two entries share an id, however close together they were submitted.    *)
(***************************************************************************)
C14_IdsUniqueAndMonotonic ==
    \A newer, older \in DOMAIN transactions :
        newer < older => transactions[newer].id > transactions[older].id

(***************************************************************************)
(* C16: validation is deterministic and idempotent: a submission made      *)
(* right after a submission that failed, with nothing changed in between,  *)
(* fails with the identical message and leaves the accounts, the log, the  *)
(* form and the rest of the state as they were; so a failed submission can *)
(* be repeated any number of times without drift.                          *)
(***************************************************************************)
C16_ValidationIsIdempotent ==
    [][(SinceFailure > 0 /\ repeatTransfer)
           => /\ error' = error
              /\ success' = success
              /\ UNCHANGED <<accounts, transactions, transferForm, filters, clock>>]_vars

\* a form that the ledger cannot cover has been submitted three times in a row
C16_Witness ==
    /\ SinceFailure = 3
    /\ error = MsgInsufficientBalance
    /\ transferForm.amount = <<"9", "9", "9", "9", "9", "9", "9">>

\* the submission passes the checks that come before the balance check
ReachesBalanceCheck ==
    /\ ~ViolatesMissingField
    /\ ~ViolatesSameAccount
    /\ ~ViolatesInvalidAmount
    /\ ~ViolatesUnknownAccount

(***************************************************************************)
(* C17: the balance check is not strict: a submission that reaches it with *)
(* an amount equal to the source balance is accepted and leaves the source *)
(* balance at exactly 0, and one with an amount strictly greater than the  *)
(* source balance is rejected with the insufficient-balance message.       *)
(***************************************************************************)
C17_BalanceCheckIsNonStrict ==
    [][(ReachesBalanceCheck /\ longTransfer)
           => \A i \in Sources :
                  IF FLt(accounts[i].balance, Requested)
                  THEN error' = MsgInsufficientBalance
                  ELSE accounts[i].balance = Requested
                           => error' = "" /\ accounts'[i].balance = Zero]_vars

\* the whole balance of an account has been transferred, and a further
\* transfer from the emptied account has been refused
C17_Witness ==
    /\ Len(transactions) = 1
    /\ transactions[1].amount = Num(2500000)
    /\ accounts[1].balance = Zero
    /\ error = MsgInsufficientBalance

\* at most the named field of the record differs after the step
OnlyFieldChanged(before, after, fields) ==
    \E field \in fields : \A other \in fields \ {field} : after[other] = before[other]

(***************************************************************************)
(* C19: a filter-field change leaves the accounts, the log and the form    *)
(* unchanged and changes no filter field but the named one; a form-field   *)
(* change leaves the accounts, the log and the filters unchanged and       *)
(* changes no form field but the named one.                                *)
(***************************************************************************)
C19_FieldChangesAreFramed ==
    [][/\ handleFilterChange
           => /\ UNCHANGED <<accounts, transactions, transferForm>>
              /\ DOMAIN filters' = FilterFields
              /\ OnlyFieldChanged(filters, filters', FilterFields)
       /\ handleFormChange
           => /\ UNCHANGED <<accounts, transactions, filters>>
              /\ DOMAIN transferForm' = FormFields
              /\ OnlyFieldChanged(transferForm, transferForm', FormFields)]_vars

\* after a transfer, a second filter field and a second form field have been
\* set next to the first ones
C19_Witness ==
    /\ Len(transactions) = 1
    /\ filters.account = "Mpesa"
    /\ filters.currency = "USD"
    /\ transferForm.fromAccount = "mpesa_kes_1"
    /\ transferForm.note = "rent"

\* the ledger after the transfer an entry of the log records: the amount
\* taken from the source, the converted amount given to the destination
WithLogged(accts, tx) ==
    [i \in DOMAIN accts |->
        IF accts[i].name = tx.fromAccount
        THEN [accts[i] EXCEPT !.balance = FSub(accts[i].balance, tx.amount)]
        ELSE IF accts[i].name = tx.toAccount
        THEN [accts[i] EXCEPT !.balance = FAdd(accts[i].balance, tx.convertedAmount)]
        ELSE accts[i]]

\* the ledger after all the transfers of a log (newest first), oldest first,
\* from the initial accounts
RECURSIVE Replay(_)
Replay(log) ==
    IF log = <<>> THEN initialAccounts ELSE WithLogged(Replay(Tail(log)), Head(log))

(***************************************************************************)
(* C20: submissions are sequential atomic transitions: every accepted      *)
(* submission adds exactly one entry to the log, so n of them leave n      *)
(* entries, and in every reachable state the balances are the cumulative   *)
(* effect of all the logged transfers on the initial accounts: no balance  *)
(* update and no log entry is lost to a later submission.                  *)
(***************************************************************************)
C20_SubmissionsAccumulate ==
    /\ [](accounts = Replay(transactions))
    /\ [][Accepted => Len(transactions') = Len(transactions) + 1]_vars

\* two transfers out of the same account, the second one across currencies,
\* have both been applied
C20_Witness ==
    /\ Len(transactions) = 2
    /\ transactions[1].fromAccount = transactions[2].fromAccount
    /\ transactions[1].toCurrency = "USD"
    /\ transactions[2].toCurrency = "KES"
    /\ accounts[1].balance = FSub(FSub(Num(2500000), transactions[2].amount),
                                  transactions[1].amount)

\* the sum of two finite numbers without rounding
ExactAdd(a, b) ==
    IF IsZero(a) THEN b
    ELSE IF IsZero(b) THEN a
    ELSE LET Signed(ma, mb, c, e) ==
                 IF a.s # b.s /\ c = 0 THEN Zero
                 ELSE Canon(IF a.s = b.s \/ c > 0 THEN a.s ELSE b.s,
                            IF a.s = b.s THEN AddN(ma, mb)
                            ELSE IF c > 0 THEN SubN(ma, mb) ELSE SubN(mb, ma),
                            e)
             Aligned(ma, mb, e) == Signed(ma, mb, CmpN(ma, mb), e)
             Scaled(e) == Aligned(ShlN(a.m, a.e - e), ShlN(b.m, b.e - e), e)
         IN  Scaled(Min(a.e, b.e))

\* a + b, exactly or as the program's numbers add
Plus(exact, a, b) == IF exact THEN ExactAdd(a, b) ELSE FAdd(a, b)

\* the sum of amount over the entries of the log that name the account as
\* source (side "source"), or of convertedAmount over those that name it as
\* destination (side "destination")
RECURSIVE LoggedTotal(_, _, _, _)
LoggedTotal(log, name, side, exact) ==
    IF log = <<>> THEN Zero
    ELSE IF side = "source" /\ Head(log).fromAccount = name
    THEN Plus(exact, LoggedTotal(Tail(log), name, side, exact), Head(log).amount)
    ELSE IF side = "destination" /\ Head(log).toAccount = name
    THEN Plus(exact, LoggedTotal(Tail(log), name, side, exact),
              Head(log).convertedAmount)
    ELSE LoggedTotal(Tail(log), name, side, exact)

\* seed balance - sum of debits + sum of credits of the account
SeedMinusDebitsPlusCredits(i, exact) ==
    Plus(exact,
         Plus(exact, initialAccounts[i].balance,
              FNeg(LoggedTotal(transactions, accounts[i].name, "source", exact))),
         LoggedTotal(transactions, accounts[i].name, "destination", exact))

\* the seed balance with the debit or credit of each entry of the log that
\* names the account applied to it, oldest entry first, as the program's
\* numbers subtract and add
RECURSIVE BalanceAfter(_, _, _)
BalanceAfter(log, name, seed) ==
    IF log = <<>> THEN seed
    ELSE IF Head(log).fromAccount = name
    THEN FSub(BalanceAfter(Tail(log), name, seed), Head(log).amount)
    ELSE IF Head(log).toAccount = name
    THEN FAdd(BalanceAfter(Tail(log), name, seed), Head(log).convertedAmount)
    ELSE BalanceAfter(Tail(log), name, seed)

(***************************************************************************)
(* C21, as stated: in every reachable state each account's balance equals  *)
(* its seed balance minus the sum of amount over the log entries naming it *)
(* as source plus the sum of convertedAmount over the log entries naming   *)
(* it as destination, the sums taken exactly or in binary64.               *)
(***************************************************************************)
C21_BalanceIsSeedMinusDebitsPlusCredits ==
    \A i \in DOMAIN accounts :
        \/ accounts[i].balance = SeedMinusDebitsPlusCredits(i, TRUE)
        \/ accounts[i].balance = SeedMinusDebitsPlusCredits(i, FALSE)

(***************************************************************************)
(* C21, amended: in every reachable state the ledger holds the seed        *)
(* accounts, and each account's balance is its seed balance with the       *)
(* amount of every log entry naming it as source subtracted and the        *)
(* convertedAmount of every log entry naming it as destination added, one  *)
(* entry after the other in the order of creation, each step rounded to    *)
(* binary64; Completed and Scheduled entries count alike.                  *)
(***************************************************************************)
C21_BalancesFollowTheLog ==
    /\ Len(accounts) = Len(initialAccounts)
    /\ \A i \in DOMAIN accounts :
           /\ accounts[i].name = initialAccounts[i].name
           /\ accounts[i].balance =
                  BalanceAfter(transactions, accounts[i].name, initialAccounts[i].balance)

\* a Scheduled transfer across currencies is in the log and in the balances
C21_Witness ==
    /\ transactions # <<>>
    /\ transactions[1].status = "Scheduled"
    /\ transactions[1].toAccount = "Bank_USD_1"
    /\ accounts[1].balance # Num(2500000)
    /\ accounts[4].balance # Num(45000)

(***************************************************************************)
(* A short session in which the amount may be the smallest positive       *)
(* double: the amount field is a number input (lines 360-368), which takes *)
(* a number written with an exponent, and the button calls handleTransfer *)
(* whatever the field holds.                                               *)
(***************************************************************************)
MaxTinyEvents == 7

TinyFormValues(field) ==
    CASE field = "fromAccount" -> {"mpesa_kes_1"}
      [] field = "toAccount" -> {"mpesa_kes_2", "bank_usd_1"}
      [] field = "amount" -> {<<"1", "3">>, <<"5", "e", "-", "3", "2", "4">>}
      [] field = "note" -> {""}
      [] field = "scheduledDate" -> {""}

TinyFilterValues(field) ==
    CASE field = "account" -> {""}
      [] field = "currency" -> {"", "USD"}
      [] field = "dateFrom" -> {""}
      [] field = "dateTo" -> {""}

tinyTransfer == Call(MaxTinyEvents) /\ Submit
tinyFormChange ==
    /\ Call(MaxTinyEvents)
    /\ FormChange([field \in FormFields |-> TinyFormValues(field)])
tinyFilterChange ==
    /\ Call(MaxTinyEvents)
    /\ FilterChange([field \in FilterFields |-> TinyFilterValues(field)])

NextTiny == tinyTransfer \/ tinyFormChange \/ tinyFilterChange

SpecTiny == Init /\ [][NextTiny]_vars

\* the FX table holds a rate above zero for every ordered pair of distinct
\* currencies
EveryPairHasPositiveRate ==
    \A from \in Currencies : \A to \in Currencies \ {from} :
        /\ <<from, to>> \in DOMAIN FX_RATES
        /\ FLt(Zero, FX_RATES[<<from, to>>])

(***************************************************************************)
(* C22: the FX table has a positive rate for every ordered pair of        *)
(* distinct currencies of {KES, USD, NGN}, so for any two existing        *)
(* accounts and any positive amount the conversion succeeds: no reachable *)
(* state shows the message of the UnsupportedCurrencyPair outcome.         *)
(***************************************************************************)
C22_UnsupportedPairIsUnreachable ==
    /\ EveryPairHasPositiveRate
    /\ error # MsgUnsupportedPair

(***************************************************************************)
(* A session of three transfers among one account of each currency, with   *)
(* amounts that let the second and third transfer send on what the         *)
(* transfer before received.                                               *)
(***************************************************************************)
MaxCycleEvents == 12

CycleFormValues(field) ==
    CASE field = "fromAccount" -> {"mpesa_kes_1", "bank_usd_1", "flutterwave_ngn_1"}
      [] field = "toAccount" -> {"mpesa_kes_1", "bank_usd_1", "flutterwave_ngn_1"}
      [] field = "amount" -> {<<"1", "0", "0", "0", "0", "0", "0">>,
                              <<"6", "7", "0", "0">>,
                              <<"1", "0", "5", "8", "6", "0", "0", "0">>}
      [] field = "note" -> {""}
      [] field = "scheduledDate" -> {""}

CycleFilterValues(field) ==
    CASE field = "account" -> {""}
      [] field = "currency" -> {"", "KES"}
      [] field = "dateFrom" -> {""}
      [] field = "dateTo" -> {""}

cycleTransfer == Call(MaxCycleEvents) /\ Submit
cycleFormChange ==
    /\ Call(MaxCycleEvents)
    /\ FormChange([field \in FormFields |-> CycleFormValues(field)])
cycleFilterChange ==
    /\ Call(MaxCycleEvents)
    /\ FilterChange([field \in FilterFields |-> CycleFilterValues(field)])

NextCycle == cycleTransfer \/ cycleFormChange \/ cycleFilterChange

SpecCycle == Init /\ [][NextCycle]_vars

\* the log entries lo..hi (the log is newest first, so hi is the first of
\* them in time) are conversions of which each sends on, out of the currency
\* the one before paid into, the amount the one before paid in, and the last
\* pays into the currency the first took from
IsCycle(lo, hi) ==
    /\ lo < hi
    /\ \A k \in lo..hi : transactions[k].fromCurrency # transactions[k].toCurrency
    /\ \A k \in lo..(hi - 1) :
           /\ transactions[k].fromCurrency = transactions[k + 1].toCurrency
           /\ transactions[k].amount = transactions[k + 1].convertedAmount
    /\ transactions[lo].toCurrency = transactions[hi].fromCurrency

\* the total of a currency over a ledger, as getTotalByCurrency adds it up
TotalOf(accts, currency) == forEach(accts, 1, <<>>)[currency]

(***************************************************************************)
(* C23: no value is created through FX cycles.  Whenever successful        *)
(* transfers move an amount out of a currency, through other currencies    *)
(* and back into the first, the amount returned is no greater than the     *)
(* amount sent, and when the session consists of such a cycle the total    *)
(* balance of that currency is no greater than it was at the start.        *)
(***************************************************************************)
C23_CyclesCreateNoValue ==
    \A lo \in DOMAIN transactions : \A hi \in DOMAIN transactions :
        IsCycle(lo, hi) =>
            /\ FLe(transactions[lo].convertedAmount, transactions[hi].amount)
            /\ lo = 1 /\ hi = Len(transactions) =>
                   FLe(TotalOf(accounts, transactions[hi].fromCurrency),
                       TotalOf(initialAccounts, transactions[hi].fromCurrency))

====
